---- MODULE Spec2Model ----
(***************************************************************************)
(* A model of frbasedretrieval.py: the retrying query executor run_sparql, *)
(* the three fetchers built on it, and the pipeline of main.               *)
(*                                                                         *)
(* Python values: None is the string "None"; an IRI is a string; a label   *)
(* is a sequence of one-character strings, so that strip, join and split   *)
(* are computed; a SPARQL binding is a function from the names of its      *)
(* bound variables to their values (b.get(k, {}).get("value") is Get).     *)
(* Durations are in tenths of a time unit (0.8 is 8).                      *)
(***************************************************************************)
EXTENDS Integers, Sequences, FiniteSets, TLC

VARIABLES
    \* run_sparql
    rs_retries, rs_sleep_sec, rs_attempt, rs_pc, rs_log, rs_result,
    \* compute_overlap and its two calls of get_frame_elements_and_synsets
    ov_source, ov_target, ov_pc, ov_n, ov_fe_src, ov_syn_src, ov_fe_tgt,
    ov_syn_tgt, ov_record,
    \* expand_equivalents_and_typing
    ty_seed, ty_pc, ty_n, ty_cand_all, ty_todo, ty_src, ty_tgt, ty_info,
    \* main
    mn_metaphors, mn_pc, mn_i, mn_all_map_rows, mn_df_map, mn_unique_frames,
    mn_typing_rows, mn_overlap_rows, mn_files, mn_events, mn_error

rsVars == <<rs_retries, rs_sleep_sec, rs_attempt, rs_pc, rs_log, rs_result>>

ovVars == <<ov_source, ov_target, ov_pc, ov_n, ov_fe_src, ov_syn_src, ov_fe_tgt,
           ov_syn_tgt, ov_record>>

tyVars == <<ty_seed, ty_pc, ty_n, ty_cand_all, ty_todo, ty_src, ty_tgt, ty_info>>

mnVars == <<mn_metaphors, mn_pc, mn_i, mn_all_map_rows, mn_df_map, mn_unique_frames,
           mn_typing_rows, mn_overlap_rows, mn_files, mn_events, mn_error>>

vars == <<rsVars, ovVars, tyVars, mnVars>>

None == "None"

(***************************************************************************)
(* run_sparql                                                              *)
(***************************************************************************)
MaxRetries == 4
DefaultRetries == 3
DefaultSleepSec == 8
SleepSecs == {5, DefaultSleepSec, 10}
QueryResults == {"res1", "res2", "res3"}

ExecOk(r) == [ev |-> "exec", ok |-> TRUE, val |-> r, dur |-> 0]
ExecFail == [ev |-> "exec", ok |-> FALSE, val |-> None, dur |-> 0]
Sleep(d) == [ev |-> "sleep", ok |-> TRUE, val |-> None, dur |-> d]

\* faulty variant: the last attempt is taken to be the one after the last
IsLastAttempt_off(attempt, retries) == attempt = retries

IsLastAttempt(attempt, retries) == attempt = retries - 1

\* faulty variant: the backoff factor starts at 0
SleepDuration_flat(sleep_sec, attempt) == sleep_sec * attempt

SleepDuration(sleep_sec, attempt) == sleep_sec * (attempt + 1)

\* for attempt in range(retries): the next iteration, or the end of the body
RsForNext ==
    /\ rs_pc = "for"
    /\ IF rs_attempt < rs_retries
         THEN rs_pc' = "try" /\ rs_result' = rs_result
         ELSE rs_pc' = "returned" /\ rs_result' = None
    /\ UNCHANGED <<rs_retries, rs_sleep_sec, rs_attempt, rs_log, ovVars, tyVars, mnVars>>

\* return sparql.query().convert()
RsQuerySucceeds ==
    /\ rs_pc = "try"
    /\ \E r \in QueryResults :
         /\ rs_log' = Append(rs_log, ExecOk(r))
         /\ rs_result' = r
    /\ rs_pc' = "returned"
    /\ UNCHANGED <<rs_retries, rs_sleep_sec, rs_attempt, ovVars, tyVars, mnVars>>

\* sparql.query() raises: the except clause re-raises or sleeps
RsQueryFails ==
    /\ rs_pc = "try"
    /\ IF IsLastAttempt(rs_attempt, rs_retries)
         THEN /\ rs_log' = Append(rs_log, ExecFail)
              /\ rs_pc' = "raised"
              /\ rs_attempt' = rs_attempt
         ELSE /\ rs_log' = rs_log \o
                    <<ExecFail, Sleep(SleepDuration(rs_sleep_sec, rs_attempt))>>
              /\ rs_pc' = "for"
              /\ rs_attempt' = rs_attempt + 1
    /\ UNCHANGED <<rs_retries, rs_sleep_sec, rs_result, ovVars, tyVars, mnVars>>

NextRunSparql == RsForNext \/ RsQuerySucceeds \/ RsQueryFails

(***************************************************************************)
(* Bindings, labels and the string operations of Python                    *)
(***************************************************************************)
\* b.get(k, {}).get("value")
Get(b, k) == IF k \in DOMAIN b THEN b[k] ELSE None

Bound(b, k) == k \in DOMAIN b

\* the code points of the characters the labels are made of
CharOrd(c) ==
    CASE c = " " -> 32
      [] c = ";" -> 59
      [] c = "a" -> 97
      [] c = "b" -> 98

IsSpace(c) == c = " "

RECURSIVE LStrip(_)
LStrip(s) ==
    IF s # <<>> /\ IsSpace(Head(s)) THEN LStrip(Tail(s)) ELSE s

RECURSIVE RStrip(_)
RStrip(s) ==
    IF s # <<>> /\ IsSpace(s[Len(s)]) THEN RStrip(SubSeq(s, 1, Len(s) - 1)) ELSE s

\* str.strip()
Strip(s) == RStrip(LStrip(s))

\* s < t on Python strings
RECURSIVE LexLess(_, _)
LexLess(s, t) ==
    IF t = <<>> THEN FALSE
    ELSE IF s = <<>> THEN TRUE
    ELSE IF Head(s) = Head(t) THEN LexLess(Tail(s), Tail(t))
    ELSE CharOrd(Head(s)) < CharOrd(Head(t))

\* sorted(S) for a set of strings
RECURSIVE Sorted(_)
Sorted(S) ==
    IF S = {} THEN <<>>
    ELSE LET m == CHOOSE x \in S : \A y \in S \ {x} : LexLess(x, y)
         IN <<m>> \o Sorted(S \ {m})

Range(q) == {q[i] : i \in DOMAIN q}

Separator == <<";", " ">>

\* sep.join(items)
RECURSIVE Join(_, _)
Join(items, sep) ==
    IF items = <<>> THEN <<>>
    ELSE IF Len(items) = 1 THEN items[1]
    ELSE items[1] \o sep \o Join(Tail(items), sep)

(***************************************************************************)
(* get_frame_elements_and_synsets and compute_overlap                      *)
(***************************************************************************)
Frames == {"f1", "f2"}

MaxRows == 3

\* labels an endpoint may return, written out as characters
FeLabelPool ==
    { <<>>, <<" ">>, <<"a">>, <<" ", "a">>, <<"b">>, <<"a", ";", " ", "b">> }

SynLabelPool == { <<"a">>, <<"b", " ">> }

LabelBindings ==
    { [feLabel |-> f, synLabel |-> s] : f \in FeLabelPool, s \in SynLabelPool }
    \cup { [feLabel |-> f] : f \in FeLabelPool }
    \cup { [synLabel |-> s] : s \in SynLabelPool }
    \cup { <<>> }

\* `if lab:` is false for None and for the empty string
Truthy(b, k) == Bound(b, k) /\ b[k] # <<>>

\* lines 173-178 for one variable: add the stripped label when it is truthy
AddLabel(labels, b, k) ==
    IF Truthy(b, k) THEN labels \cup {Strip(b[k])} ELSE labels

RECURSIVE LabelsOf(_, _)
LabelsOf(bindings, k) ==
    IF bindings = <<>> THEN {}
    ELSE AddLabel(LabelsOf(Tail(bindings), k), Head(bindings), k)

\* get_frame_elements_and_synsets on the bindings the endpoint returned
GetFrameElementsAndSynsets(bindings) ==
    <<Sorted(LabelsOf(bindings, "feLabel")), Sorted(LabelsOf(bindings, "synLabel"))>>

\* sorted(set(xs) & set(ys))
Common(xs, ys) == Sorted(Range(xs) \cap Range(ys))

\* faulty variant: frame-element labels also count as synset labels
OverlapRecord_crossed(source_frame, target_frame, fe_src, syn_src, fe_tgt, syn_tgt) ==
    LET common_fe == Common(fe_src, fe_tgt)
        common_syn == Common(syn_src \o fe_src, syn_tgt \o fe_tgt)
    IN [source_frame |-> source_frame,
        target_frame |-> target_frame,
        n_common_frame_elements |-> Len(common_fe),
        n_common_synset_labels |-> Len(common_syn),
        common_frame_elements |-> Join(common_fe, Separator),
        common_synset_labels |-> Join(common_syn, Separator)]

\* lines 184-193 of compute_overlap, after the two fetches
OverlapRecord(source_frame, target_frame, fe_src, syn_src, fe_tgt, syn_tgt) ==
    LET common_fe == Common(fe_src, fe_tgt)
        common_syn == Common(syn_src, syn_tgt)
    IN [source_frame |-> source_frame,
        target_frame |-> target_frame,
        n_common_frame_elements |-> Len(common_fe),
        n_common_synset_labels |-> Len(common_syn),
        common_frame_elements |-> Join(common_fe, Separator),
        common_synset_labels |-> Join(common_syn, Separator)]

\* compute_overlap, given what the endpoint returned for each frame
ComputeOverlap(source_frame, target_frame, src_bindings, tgt_bindings) ==
    LET s == GetFrameElementsAndSynsets(src_bindings)
        t == GetFrameElementsAndSynsets(tgt_bindings)
    IN OverlapRecord(source_frame, target_frame, s[1], s[2], t[1], t[2])

NoRecord == [source_frame |-> None]

\* one iteration of the loop over the bindings of the source frame's query
OvSourceRow ==
    /\ ov_pc = "src"
    /\ ov_n < MaxRows
    /\ \E b \in LabelBindings :
         /\ ov_fe_src' = AddLabel(ov_fe_src, b, "feLabel")
         /\ ov_syn_src' = AddLabel(ov_syn_src, b, "synLabel")
    /\ ov_n' = ov_n + 1
    /\ UNCHANGED <<ov_source, ov_target, ov_pc, ov_fe_tgt, ov_syn_tgt, ov_record,
                   rsVars, tyVars, mnVars>>

\* the first call returns; the second query is issued
OvSourceDone ==
    /\ ov_pc = "src"
    /\ ov_pc' = "tgt"
    /\ ov_n' = 0
    /\ UNCHANGED <<ov_source, ov_target, ov_fe_src, ov_syn_src, ov_fe_tgt,
                   ov_syn_tgt, ov_record, rsVars, tyVars, mnVars>>

\* one iteration of the loop over the bindings of the target frame's query
OvTargetRow ==
    /\ ov_pc = "tgt"
    /\ ov_n < MaxRows
    /\ \E b \in LabelBindings :
         /\ ov_fe_tgt' = AddLabel(ov_fe_tgt, b, "feLabel")
         /\ ov_syn_tgt' = AddLabel(ov_syn_tgt, b, "synLabel")
    /\ ov_n' = ov_n + 1
    /\ UNCHANGED <<ov_source, ov_target, ov_pc, ov_fe_src, ov_syn_src, ov_record,
                   rsVars, tyVars, mnVars>>

\* the second call returns and compute_overlap builds its record
OvReturn ==
    /\ ov_pc = "tgt"
    /\ ov_pc' = "done"
    /\ ov_n' = 0
    /\ ov_record' = OverlapRecord(ov_source, ov_target,
                                  Sorted(ov_fe_src), Sorted(ov_syn_src),
                                  Sorted(ov_fe_tgt), Sorted(ov_syn_tgt))
    /\ UNCHANGED <<ov_source, ov_target, ov_fe_src, ov_syn_src, ov_fe_tgt,
                   ov_syn_tgt, rsVars, tyVars, mnVars>>

NextOverlap == OvSourceRow \/ OvSourceDone \/ OvTargetRow \/ OvReturn

(***************************************************************************)
(* expand_equivalents_and_typing                                           *)
(***************************************************************************)
FrameIris == Frames \cup {"f3"}

CandidateBindings == { [candidate |-> c] : c \in FrameIris } \cup { <<>> }

\* b.get("candidate", {}).get("value", frame_uri)
CandidateOf(b, frame_uri) ==
    IF Bound(b, "candidate") THEN b["candidate"] ELSE frame_uri

NoInfo == [seed |-> None]

\* one iteration of the first loop: cand_all.add(c)
TyRow ==
    /\ ty_pc = "rows"
    /\ ty_n < MaxRows
    /\ \E b \in CandidateBindings :
         ty_cand_all' = ty_cand_all \cup {CandidateOf(b, ty_seed)}
    /\ ty_n' = ty_n + 1
    /\ UNCHANGED <<ty_seed, ty_pc, ty_todo, ty_src, ty_tgt, ty_info, rsVars, ovVars, mnVars>>

\* the bindings are exhausted: for c in list(cand_all)
TyRowsDone ==
    /\ ty_pc = "rows"
    /\ ty_pc' = "ask"
    /\ ty_todo' = ty_cand_all
    /\ ty_n' = 0
    /\ UNCHANGED <<ty_seed, ty_cand_all, ty_src, ty_tgt, ty_info, rsVars, ovVars, mnVars>>

\* one iteration of the second loop: the two ASK queries of a candidate
TyAsk ==
    /\ ty_pc = "ask"
    /\ \E c \in ty_todo, is_src \in BOOLEAN, is_tgt \in BOOLEAN :
         /\ ty_todo' = ty_todo \ {c}
         /\ ty_src' = IF is_src THEN ty_src \cup {c} ELSE ty_src
         /\ ty_tgt' = IF is_tgt THEN ty_tgt \cup {c} ELSE ty_tgt
    /\ UNCHANGED <<ty_seed, ty_pc, ty_n, ty_cand_all, ty_info, rsVars, ovVars, mnVars>>

\* the return statement
TyReturn ==
    /\ ty_pc = "ask"
    /\ ty_todo = {}
    /\ ty_pc' = "done"
    /\ ty_info' = [seed |-> ty_seed, candidates |-> ty_cand_all,
                   as_source |-> ty_src, as_target |-> ty_tgt]
    /\ UNCHANGED <<ty_seed, ty_n, ty_cand_all, ty_todo, ty_src, ty_tgt, rsVars, ovVars, mnVars>>

NextTyping == TyRow \/ TyRowsDone \/ TyAsk \/ TyReturn

\* the whole of expand_equivalents_and_typing, given the candidate query's
\* bindings and the IRIs for which each ASK query answers true
RECURSIVE CandAll(_, _)
CandAll(bindings, frame_uri) ==
    IF bindings = <<>> THEN {}
    ELSE CandAll(Tail(bindings), frame_uri) \cup {CandidateOf(Head(bindings), frame_uri)}

ExpandEquivalentsAndTyping(frame_uri, bindings, ask_src, ask_tgt) ==
    LET cand_all == CandAll(bindings, frame_uri)
    IN [seed |-> frame_uri,
        candidates |-> cand_all,
        as_source |-> {c \in cand_all : c \in ask_src},
        as_target |-> {c \in cand_all : c \in ask_tgt}]

(***************************************************************************)
(* get_mappings_roles_entailments                                          *)
(***************************************************************************)
MapColumns ==
    <<"metaphor", "source_frame", "target_frame", "source_role", "target_role",
      "entailment", "example">>

\* lines 59-67: one row of a binding
MappingRow(b) ==
    [metaphor |-> Get(b, "metaphor"),
     source_frame |-> Get(b, "src"),
     target_frame |-> Get(b, "tgt"),
     source_role |-> Get(b, "srcRole"),
     target_role |-> Get(b, "tgtRole"),
     entailment |-> Get(b, "ent"),
     example |-> Get(b, "ex")]

GetMappingsRolesEntailments(bindings) ==
    [i \in 1..Len(bindings) |-> MappingRow(bindings[i])]

\* lines 200-203
PlaceholderRow(m) ==
    [metaphor |-> m, source_frame |-> None, target_frame |-> None,
     source_role |-> None, target_role |-> None, entailment |-> None,
     example |-> None]

(***************************************************************************)
(* pandas: DataFrame, drop_duplicates, dropna, to_csv                      *)
(***************************************************************************)
\* pd.DataFrame(list of dicts): the columns are the keys of the dicts, and an
\* empty list gives a frame without columns
DataFrame(rows, columns) ==
    [columns |-> IF rows = <<>> THEN <<>> ELSE columns, rows |-> rows]

RECURSIVE DedupRows(_, _)
DedupRows(rows, seen) ==
    IF rows = <<>> THEN <<>>
    ELSE IF Head(rows) \in seen THEN DedupRows(Tail(rows), seen)
    ELSE <<Head(rows)>> \o DedupRows(Tail(rows), seen \cup {Head(rows)})

\* df.drop_duplicates(): the first of equal rows is kept
DropDuplicates(df) == [columns |-> df.columns, rows |-> DedupRows(df.rows, {})]

HasColumns(df, names) == names \subseteq Range(df.columns)

\* faulty variant: rows with a missing frame are kept
DropNa_nofilter(df, names) == df

\* df.dropna(subset=names), for a frame that has these columns
DropNa(df, names) ==
    [columns |-> df.columns,
     rows |-> SelectSeq(df.rows, LAMBDA r : \A c \in names : r[c] # None)]

\* df.to_csv(path, index=False): a header line and the rows
ToCsv(df) == [header |-> df.columns, rows |-> df.rows]

IriOrder == <<"f1", "f2", "f3">>

IriRank(f) == CHOOSE i \in DOMAIN IriOrder : IriOrder[i] = f

\* sorted(S) for a set of IRIs
RECURSIVE SortedIris(_)
SortedIris(S) ==
    IF S = {} THEN <<>>
    ELSE LET m == CHOOSE x \in S : \A y \in S : IriRank(x) <= IriRank(y)
         IN <<m>> \o SortedIris(S \ {m})

(***************************************************************************)
(* main                                                                    *)
(***************************************************************************)
MaxMetaphors == 2
MaxBindings == 2

\* SELECTED_METAPHORS, cut to the first n identifiers
MetaphorUniverse == <<"m1", "m2", "m3", "m4">>

SeqsUpTo(S, n) == UNION { [1..k -> S] : k \in 0..n }

\* what the endpoint may return for the mapping query of metaphor m
MapBindings(m) ==
    { [metaphor |-> m, src |-> "f1", tgt |-> "f2", srcRole |-> "r1",
       tgtRole |-> "r2", ent |-> "e1", ex |-> "x1"],
      [metaphor |-> m, src |-> "f1", tgt |-> "f2"],
      [metaphor |-> m, src |-> "f2"],
      [src |-> "f1", tgt |-> "f1"],
      <<>> }

MapResponses(m) == SeqsUpTo(MapBindings(m), MaxBindings)

\* what the endpoint may return for the candidate query of frame f
TypingResponses(f) ==
    { <<>>, <<[candidate |-> f]>>, <<[candidate |-> "f3"], <<>>>> }

AskAnswers == { {}, {"f1", "f3"} }

\* what the endpoint may return for the label query of a frame
LabelResponses ==
    { <<>>, <<[feLabel |-> <<"a">>, synLabel |-> <<"b", " ">>]>> }

\* how a call of run_sparql with `retries` attempts ends when the first nfail
\* executions fail: "returned", "raised", or "none" when the loop body never
\* returns or raises
RECURSIVE RunSparqlOutcome(_, _, _)
RunSparqlOutcome(attempt, retries, nfail) ==
    IF attempt >= retries THEN "none"
    ELSE IF attempt >= nfail THEN "returned"
    ELSE IF IsLastAttempt(attempt, retries) THEN "raised"
    ELSE RunSparqlOutcome(attempt + 1, retries, nfail)

QueryOutcomes == { RunSparqlOutcome(0, DefaultRetries, n) : n \in 0..DefaultRetries }

QueryError(outcome) == IF outcome = "raised" THEN "QueryError" ELSE "TypeError"

\* faulty variant: the loop stops before its last element
LoopDone_early(i, seq) == i >= Len(seq)

\* a for loop over seq, at its i-th element: exhausted or not
LoopDone(i, seq) == i > Len(seq)

NotWritten == [header |-> None]

Repeat(e, n) == [i \in 1..n |-> e]

TypingColumns ==
    <<"seed_frame", "equivalent_or_related_frames", "as_source", "as_target">>

OverlapColumns ==
    <<"source_frame", "target_frame", "n_common_frame_elements",
      "n_common_synset_labels", "common_frame_elements", "common_synset_labels">>

\* lines 215-220; a joined field holds the sorted IRIs it is joined from
TypingRow(info) ==
    [seed_frame |-> info.seed,
     equivalent_or_related_frames |-> SortedIris(info.candidates),
     as_source |-> SortedIris(info.as_source),
     as_target |-> SortedIris(info.as_target)]

\* line 211
UniqueFrames(df) ==
    SortedIris(({ df.rows[i].source_frame : i \in DOMAIN df.rows } \ {None})
               \cup ({ df.rows[i].target_frame : i \in DOMAIN df.rows } \ {None}))

FramePairColumns == {"source_frame", "target_frame"}

\* an uncaught exception ends the process
Crash(events, error) ==
    /\ mn_pc' = "crashed"
    /\ mn_events' = mn_events \o events
    /\ mn_error' = error
    /\ UNCHANGED <<mn_metaphors, mn_i, mn_all_map_rows, mn_df_map, mn_unique_frames,
                   mn_typing_rows, mn_overlap_rows, mn_files>>

\* lines 197-205: one iteration of the loop over SELECTED_METAPHORS
MnFetchMappings ==
    /\ mn_pc = "map"
    /\ ~LoopDone(mn_i, mn_metaphors)
    /\ LET m == mn_metaphors[mn_i] IN
       \E outcome \in QueryOutcomes, bindings \in MapResponses(m) :
         IF outcome # "returned"
           THEN Crash(<<"q_map">>, QueryError(outcome))
           ELSE LET rows == GetMappingsRolesEntailments(bindings) IN
                /\ mn_all_map_rows' =
                     IF rows = <<>> THEN Append(mn_all_map_rows, PlaceholderRow(m))
                                    ELSE mn_all_map_rows \o rows
                /\ mn_i' = mn_i + 1
                /\ mn_events' = Append(mn_events, "q_map")
                /\ UNCHANGED <<mn_metaphors, mn_pc, mn_df_map, mn_unique_frames,
                               mn_typing_rows, mn_overlap_rows, mn_files, mn_error>>
    /\ UNCHANGED <<rsVars, ovVars, tyVars>>

\* lines 207-208
MnWriteMappingTable ==
    /\ mn_pc = "map"
    /\ LoopDone(mn_i, mn_metaphors)
    /\ LET df == DropDuplicates(DataFrame(mn_all_map_rows, MapColumns)) IN
         /\ mn_df_map' = df
         /\ mn_files' = [mn_files EXCEPT !["map"] = ToCsv(df)]
    /\ mn_events' = Append(mn_events, "w_map")
    /\ mn_pc' = "frames"
    /\ UNCHANGED <<mn_metaphors, mn_i, mn_all_map_rows, mn_unique_frames,
                   mn_typing_rows, mn_overlap_rows, mn_error, rsVars, ovVars, tyVars>>

\* line 211: df_map["source_frame"] raises KeyError on a frame without columns
MnUniqueFrames ==
    /\ mn_pc = "frames"
    /\ IF ~HasColumns(mn_df_map, FramePairColumns)
         THEN Crash(<<>>, "KeyError")
         ELSE /\ mn_unique_frames' = UniqueFrames(mn_df_map)
              /\ mn_pc' = "typing"
              /\ mn_i' = 1
              /\ UNCHANGED <<mn_metaphors, mn_all_map_rows, mn_df_map, mn_typing_rows,
                             mn_overlap_rows, mn_files, mn_events, mn_error>>
    /\ UNCHANGED <<rsVars, ovVars, tyVars>>

\* lines 213-220: one iteration of the loop over unique_frames; the call issues
\* the candidate query and then two ASK queries per candidate, and the
\* failed-th of them (if any) raises
MnExpandTyping ==
    /\ mn_pc = "typing"
    /\ ~LoopDone(mn_i, mn_unique_frames)
    /\ LET f == mn_unique_frames[mn_i] IN
       \E bindings \in TypingResponses(f), ask_src \in AskAnswers, ask_tgt \in AskAnswers :
         LET info == ExpandEquivalentsAndTyping(f, bindings, ask_src, ask_tgt)
             nq == 1 + 2 * Cardinality(info.candidates)
         IN \E failed \in 0..nq, outcome \in QueryOutcomes :
              IF failed > 0
                THEN /\ outcome # "returned"
                     /\ Crash(Repeat("q_type", failed), QueryError(outcome))
                ELSE /\ outcome = "returned"
                     /\ mn_typing_rows' = Append(mn_typing_rows, TypingRow(info))
                     /\ mn_i' = mn_i + 1
                     /\ mn_events' = mn_events \o Repeat("q_type", nq)
                     /\ UNCHANGED <<mn_metaphors, mn_pc, mn_all_map_rows, mn_df_map,
                                    mn_unique_frames, mn_overlap_rows, mn_files, mn_error>>
    /\ UNCHANGED <<rsVars, ovVars, tyVars>>

\* lines 221-222
MnWriteTypingTable ==
    /\ mn_pc = "typing"
    /\ LoopDone(mn_i, mn_unique_frames)
    /\ mn_files' = [mn_files EXCEPT
                      !["typing"] = ToCsv(DataFrame(mn_typing_rows, TypingColumns))]
    /\ mn_events' = Append(mn_events, "w_type")
    /\ mn_pc' = "overlap"
    /\ mn_i' = 1
    /\ UNCHANGED <<mn_metaphors, mn_all_map_rows, mn_df_map, mn_unique_frames,
                   mn_typing_rows, mn_overlap_rows, mn_error, rsVars, ovVars, tyVars>>

\* lines 225-226: one iteration of the loop over the rows with both frames
MnComputeOverlap ==
    /\ mn_pc = "overlap"
    /\ LET pairs == DropNa(mn_df_map, FramePairColumns).rows IN
       /\ ~LoopDone(mn_i, pairs)
       /\ \E src_bindings \in LabelResponses, tgt_bindings \in LabelResponses,
             failed \in 0..2, outcome \in QueryOutcomes :
            IF failed > 0
              THEN /\ outcome # "returned"
                   /\ Crash(Repeat("q_ovl", failed), QueryError(outcome))
              ELSE /\ outcome = "returned"
                   /\ mn_overlap_rows' =
                        Append(mn_overlap_rows,
                               ComputeOverlap(pairs[mn_i].source_frame,
                                              pairs[mn_i].target_frame,
                                              src_bindings, tgt_bindings))
                   /\ mn_i' = mn_i + 1
                   /\ mn_events' = mn_events \o Repeat("q_ovl", 2)
                   /\ UNCHANGED <<mn_metaphors, mn_pc, mn_all_map_rows, mn_df_map,
                                  mn_unique_frames, mn_typing_rows, mn_files, mn_error>>
    /\ UNCHANGED <<rsVars, ovVars, tyVars>>

\* lines 227-238: the overlap table is written and the summary printed
MnWriteOverlapTable ==
    /\ mn_pc = "overlap"
    /\ LoopDone(mn_i, DropNa(mn_df_map, FramePairColumns).rows)
    /\ mn_files' = [mn_files EXCEPT
                      !["overlap"] =
                          ToCsv(DropDuplicates(DataFrame(mn_overlap_rows, OverlapColumns)))]
    /\ mn_events' = Append(mn_events, "w_ovl")
    /\ mn_pc' = "done"
    /\ UNCHANGED <<mn_metaphors, mn_i, mn_all_map_rows, mn_df_map, mn_unique_frames,
                   mn_typing_rows, mn_overlap_rows, mn_error, rsVars, ovVars, tyVars>>

NextMain ==
    \/ MnFetchMappings
    \/ MnWriteMappingTable
    \/ MnUniqueFrames
    \/ MnExpandTyping
    \/ MnWriteTypingTable
    \/ MnComputeOverlap
    \/ MnWriteOverlapTable

(***************************************************************************)
(* Specifications                                                          *)
(***************************************************************************)
\* a call of run_sparql; the other functions are not running
InitRunSparql ==
    /\ rs_retries \in 0..MaxRetries
    /\ rs_sleep_sec \in SleepSecs
    /\ rs_attempt = 0
    /\ rs_pc = "for"
    /\ rs_log = <<>>
    /\ rs_result = None
    /\ ov_source = None
    /\ ov_target = None
    /\ ov_pc = "idle"
    /\ ov_n = 0
    /\ ov_fe_src = {}
    /\ ov_syn_src = {}
    /\ ov_fe_tgt = {}
    /\ ov_syn_tgt = {}
    /\ ov_record = NoRecord
    /\ ty_seed = None
    /\ ty_pc = "idle"
    /\ ty_n = 0
    /\ ty_cand_all = {}
    /\ ty_todo = {}
    /\ ty_src = {}
    /\ ty_tgt = {}
    /\ ty_info = NoInfo
    /\ mn_metaphors = <<>>
    /\ mn_pc = "idle"
    /\ mn_i = 1
    /\ mn_all_map_rows = <<>>
    /\ mn_df_map = DataFrame(<<>>, MapColumns)
    /\ mn_unique_frames = <<>>
    /\ mn_typing_rows = <<>>
    /\ mn_overlap_rows = <<>>
    /\ mn_files = [t \in {"map", "typing", "overlap"} |-> NotWritten]
    /\ mn_events = <<>>
    /\ mn_error = None

\* a call of compute_overlap; the other functions are not running
InitOverlap ==
    /\ rs_retries = DefaultRetries
    /\ rs_sleep_sec = DefaultSleepSec
    /\ rs_attempt = 0
    /\ rs_pc = "idle"
    /\ rs_log = <<>>
    /\ rs_result = None
    /\ ov_source \in Frames
    /\ ov_target \in Frames
    /\ ov_pc = "src"
    /\ ov_n = 0
    /\ ov_fe_src = {}
    /\ ov_syn_src = {}
    /\ ov_fe_tgt = {}
    /\ ov_syn_tgt = {}
    /\ ov_record = NoRecord
    /\ ty_seed = None
    /\ ty_pc = "idle"
    /\ ty_n = 0
    /\ ty_cand_all = {}
    /\ ty_todo = {}
    /\ ty_src = {}
    /\ ty_tgt = {}
    /\ ty_info = NoInfo
    /\ mn_metaphors = <<>>
    /\ mn_pc = "idle"
    /\ mn_i = 1
    /\ mn_all_map_rows = <<>>
    /\ mn_df_map = DataFrame(<<>>, MapColumns)
    /\ mn_unique_frames = <<>>
    /\ mn_typing_rows = <<>>
    /\ mn_overlap_rows = <<>>
    /\ mn_files = [t \in {"map", "typing", "overlap"} |-> NotWritten]
    /\ mn_events = <<>>
    /\ mn_error = None

\* a call of expand_equivalents_and_typing; the other functions are not running
InitTyping ==
    /\ rs_retries = DefaultRetries
    /\ rs_sleep_sec = DefaultSleepSec
    /\ rs_attempt = 0
    /\ rs_pc = "idle"
    /\ rs_log = <<>>
    /\ rs_result = None
    /\ ov_source = None
    /\ ov_target = None
    /\ ov_pc = "idle"
    /\ ov_n = 0
    /\ ov_fe_src = {}
    /\ ov_syn_src = {}
    /\ ov_fe_tgt = {}
    /\ ov_syn_tgt = {}
    /\ ov_record = NoRecord
    /\ ty_seed \in Frames
    /\ ty_pc = "rows"
    /\ ty_n = 0
    /\ ty_cand_all = {}
    /\ ty_todo = {}
    /\ ty_src = {}
    /\ ty_tgt = {}
    /\ ty_info = NoInfo
    /\ mn_metaphors = <<>>
    /\ mn_pc = "idle"
    /\ mn_i = 1
    /\ mn_all_map_rows = <<>>
    /\ mn_df_map = DataFrame(<<>>, MapColumns)
    /\ mn_unique_frames = <<>>
    /\ mn_typing_rows = <<>>
    /\ mn_overlap_rows = <<>>
    /\ mn_files = [t \in {"map", "typing", "overlap"} |-> NotWritten]
    /\ mn_events = <<>>
    /\ mn_error = None

\* a call of main; the other functions are not running
InitMain ==
    /\ rs_retries = DefaultRetries
    /\ rs_sleep_sec = DefaultSleepSec
    /\ rs_attempt = 0
    /\ rs_pc = "idle"
    /\ rs_log = <<>>
    /\ rs_result = None
    /\ ov_source = None
    /\ ov_target = None
    /\ ov_pc = "idle"
    /\ ov_n = 0
    /\ ov_fe_src = {}
    /\ ov_syn_src = {}
    /\ ov_fe_tgt = {}
    /\ ov_syn_tgt = {}
    /\ ov_record = NoRecord
    /\ ty_seed = None
    /\ ty_pc = "idle"
    /\ ty_n = 0
    /\ ty_cand_all = {}
    /\ ty_todo = {}
    /\ ty_src = {}
    /\ ty_tgt = {}
    /\ ty_info = NoInfo
    /\ mn_metaphors \in { SubSeq(MetaphorUniverse, 1, n) : n \in 0..MaxMetaphors }
    /\ mn_pc = "map"
    /\ mn_i = 1
    /\ mn_all_map_rows = <<>>
    /\ mn_df_map = DataFrame(<<>>, MapColumns)
    /\ mn_unique_frames = <<>>
    /\ mn_typing_rows = <<>>
    /\ mn_overlap_rows = <<>>
    /\ mn_files = [t \in {"map", "typing", "overlap"} |-> NotWritten]
    /\ mn_events = <<>>
    /\ mn_error = None

SpecRunSparql == InitRunSparql /\ [][NextRunSparql]_vars

SpecOverlap == InitOverlap /\ [][NextOverlap]_vars

SpecTyping == InitTyping /\ [][NextTyping]_vars

SpecMain == InitMain /\ [][NextMain]_vars

(***************************************************************************)
(* Properties of run_sparql                                                *)
(***************************************************************************)
Execs(log) == SelectSeq(log, LAMBDA e : e.ev = "exec")
Sleeps(log) == SelectSeq(log, LAMBDA e : e.ev = "sleep")
FailedExecs(log) == SelectSeq(log, LAMBDA e : e.ev = "exec" /\ ~e.ok)
RsTerminated == rs_pc \in {"returned", "raised"}

\* C1: with retries >= 1, a call that returns after k failed executions
\* (k < retries) returns the result of execution k+1, after exactly k+1
\* executions and k sleeps, the i-th sleep lasting sleep_sec*i between failed
\* execution i and execution i+1.
C1_RetrySuccess ==
    (rs_pc = "returned" /\ rs_retries >= 1) =>
        LET k == Len(FailedExecs(rs_log)) IN
        /\ k < rs_retries
        /\ Len(Execs(rs_log)) = k + 1
        /\ Len(Sleeps(rs_log)) = k
        /\ Len(rs_log) = 2 * k + 1
        /\ \A i \in 1..k :
             /\ rs_log[2 * i - 1] = ExecFail
             /\ rs_log[2 * i] = Sleep(rs_sleep_sec * i)
        /\ rs_log[2 * k + 1] = ExecOk(rs_result)
        /\ rs_result \in QueryResults

C1_Witness ==
    /\ rs_pc = "returned"
    /\ rs_retries = 3
    /\ rs_sleep_sec = DefaultSleepSec
    /\ Sleeps(rs_log) = <<Sleep(DefaultSleepSec), Sleep(2 * DefaultSleepSec)>>

\* C2: with retries >= 1, a call in which every execution fails performs
\* exactly `retries` executions and retries-1 sleeps of sleep_sec*1 ..
\* sleep_sec*(retries-1), none after the last failure, and then raises.
C2_RetryExhaustion ==
    (RsTerminated /\ rs_retries >= 1 /\ FailedExecs(rs_log) = Execs(rs_log)) =>
        /\ rs_pc = "raised"
        /\ rs_result = None
        /\ Len(Execs(rs_log)) = rs_retries
        /\ Len(rs_log) = 2 * rs_retries - 1
        /\ \A i \in 1..(rs_retries - 1) : rs_log[2 * i] = Sleep(rs_sleep_sec * i)
        /\ \A i \in 1..rs_retries : rs_log[2 * i - 1] = ExecFail

C2_Witness ==
    /\ rs_pc = "raised"
    /\ rs_retries = 3
    /\ Len(Sleeps(rs_log)) = 2

\* C10: for every retries >= 0 the query is executed at least once, and a
\* normal return carries the parsed result of a successful execution.
C10_ReturnsAResult ==
    /\ RsTerminated => Len(Execs(rs_log)) >= 1
    /\ rs_pc = "returned" =>
         /\ rs_result \in QueryResults
         /\ rs_log # <<>>
         /\ rs_log[Len(rs_log)] = ExecOk(rs_result)

(***************************************************************************)
(* Properties of expand_equivalents_and_typing                             *)
(***************************************************************************)
\* C4: the record returned for a seed frame has as_source and as_target
\* inside candidates, and candidates contains the seed, whatever the
\* endpoint answered (an empty bindings list included).
C4_TypingRecord ==
    ty_pc = "done" =>
        /\ ty_info.as_source \subseteq ty_info.candidates
        /\ ty_info.as_target \subseteq ty_info.candidates
        /\ ty_info.seed \in ty_info.candidates

(***************************************************************************)
(* Properties of compute_overlap                                           *)
(***************************************************************************)
StartsWith(s, p) == Len(s) >= Len(p) /\ SubSeq(s, 1, Len(p)) = p

\* str.split(sep), with the item being read carried in cur
RECURSIVE SplitFrom(_, _, _)
SplitFrom(s, sep, cur) ==
    IF s = <<>> THEN <<cur>>
    ELSE IF StartsWith(s, sep)
      THEN <<cur>> \o SplitFrom(SubSeq(s, Len(sep) + 1, Len(s)), sep, <<>>)
      ELSE SplitFrom(Tail(s), sep, Append(cur, Head(s)))

\* the items of a joined field; the empty string has none
SplitItems(s) == IF s = <<>> THEN <<>> ELSE SplitFrom(s, Separator, <<>>)

\* C5: in every overlap record each count equals the number of items its
\* content field splits into on the separator (the empty string splitting
\* to no item), for every pair of label collections the endpoint returns.
C5_CountMatchesSplit ==
    ov_pc = "done" =>
        /\ ov_record.n_common_frame_elements
             = Len(SplitItems(ov_record.common_frame_elements))
        /\ ov_record.n_common_synset_labels
             = Len(SplitItems(ov_record.common_synset_labels))

Ascending(q) == \A i \in 1..(Len(q) - 1) : LexLess(q[i], q[i + 1])

\* str is the elements of S, in ascending order, joined by the separator
AscendingJoinOf(str, S) ==
    \E q \in [1..Cardinality(S) -> S] :
        /\ Range(q) = S
        /\ Ascending(q)
        /\ Join(q, Separator) = str

\* C6: with A, B the frame-element labels and C, D the synset labels that
\* the two fetches returned, the record counts |A \cap B| and |C \cap D| and
\* lists exactly those elements in ascending order, joined by the separator;
\* frame-element labels are never matched against synset labels.
C6_ExactIntersection ==
    ov_pc = "done" =>
        /\ ov_record.source_frame = ov_source
        /\ ov_record.target_frame = ov_target
        /\ ov_record.n_common_frame_elements = Cardinality(ov_fe_src \cap ov_fe_tgt)
        /\ ov_record.n_common_synset_labels = Cardinality(ov_syn_src \cap ov_syn_tgt)
        /\ AscendingJoinOf(ov_record.common_frame_elements, ov_fe_src \cap ov_fe_tgt)
        /\ AscendingJoinOf(ov_record.common_synset_labels, ov_syn_src \cap ov_syn_tgt)

\* two common frame elements, and a label that is a frame element of one
\* frame and a synset label of the other without being common to either list
C6_Witness ==
    /\ ov_pc = "done"
    /\ ov_record.n_common_frame_elements = 2
    /\ ov_record.common_frame_elements = <<"a", ";", " ", "b">>
    /\ ov_fe_src \cap ov_fe_tgt = {<<"a">>, <<"b">>}
    /\ <<"a">> \in ov_syn_tgt \ ov_syn_src
    /\ ov_record.n_common_synset_labels = 0

(***************************************************************************)
(* Properties of main                                                      *)
(***************************************************************************)
Written(t) == mn_files[t] # NotWritten

Terminated == mn_pc \in {"done", "crashed"}

\* C3: once the mapping table is written it has, for every configured
\* metaphor m, a row whose metaphor field is m, whatever the endpoint
\* returned for m (no rows, or rows with ?metaphor unbound).
C3_PlaceholderRow ==
    Written("map") =>
        \A i \in DOMAIN mn_metaphors :
            \E j \in DOMAIN mn_files["map"].rows :
                mn_files["map"].rows[j].metaphor = mn_metaphors[i]

\* C7: with no metaphor configured, main ends successfully without a query,
\* and the three tables are written with no data row and their header columns.
C7_ZeroMetaphors ==
    (mn_metaphors = <<>> /\ Terminated) =>
        /\ mn_pc = "done"
        /\ mn_events = <<"w_map", "w_type", "w_ovl">>
        /\ mn_files["map"] = [header |-> MapColumns, rows |-> <<>>]
        /\ mn_files["typing"] = [header |-> TypingColumns, rows |-> <<>>]
        /\ mn_files["overlap"] = [header |-> OverlapColumns, rows |-> <<>>]

PairOf(r) == <<r.source_frame, r.target_frame>>

\* the (source_frame, target_frame) pairs of the mapping table's rows that
\* have both frames
MappedPairs ==
    { PairOf(mn_files["map"].rows[i]) :
        i \in { k \in DOMAIN mn_files["map"].rows :
                  /\ mn_files["map"].rows[k].source_frame # None
                  /\ mn_files["map"].rows[k].target_frame # None } }

RecordsOf(p) ==
    { j \in DOMAIN mn_files["overlap"].rows : PairOf(mn_files["overlap"].rows[j]) = p }

MapRowsOf(p) ==
    { i \in DOMAIN mn_files["map"].rows : PairOf(mn_files["map"].rows[i]) = p }

\* C8: when main completes, the overlap table has exactly one record for
\* each pair of frames of a mapping-table row with both frames, and no
\* record of another pair.
C8_OneRecordPerPair ==
    mn_pc = "done" =>
        /\ \A p \in MappedPairs : Cardinality(RecordsOf(p)) = 1
        /\ \A j \in DOMAIN mn_files["overlap"].rows :
             PairOf(mn_files["overlap"].rows[j]) \in MappedPairs

\* C8 as amended: the pairs of the overlap table are exactly the pairs of the
\* mapping-table rows with both frames; no two records are equal; a pair has
\* at least one record and at most as many as it has mapping-table rows.
C8_PairsCoveredRecordsDistinct ==
    mn_pc = "done" =>
        /\ \A p \in MappedPairs :
             /\ Cardinality(RecordsOf(p)) >= 1
             /\ Cardinality(RecordsOf(p)) <= Cardinality(MapRowsOf(p))
        /\ \A j \in DOMAIN mn_files["overlap"].rows :
             PairOf(mn_files["overlap"].rows[j]) \in MappedPairs
        /\ \A j, k \in DOMAIN mn_files["overlap"].rows :
             j # k => mn_files["overlap"].rows[j] # mn_files["overlap"].rows[k]

\* the pair (f1, f2) was computed twice, once with equal records that were
\* deduplicated and once more with a different one
C8_Witness ==
    /\ mn_pc = "done"
    /\ Cardinality(RecordsOf(<<"f1", "f2">>)) = 2
    /\ Len(mn_overlap_rows) > Len(mn_files["overlap"].rows)

Count(e) == Len(SelectSeq(mn_events, LAMBDA x : x = e))

Occurs(e) == Count(e) > 0

StageRank(e) ==
    CASE e = "q_map" -> 1 [] e = "w_map" -> 2 [] e = "q_type" -> 3
      [] e = "w_type" -> 4 [] e = "q_ovl" -> 5 [] e = "w_ovl" -> 6

LastEvent == mn_events[Len(mn_events)]

\* C9: queries and table writes happen stage by stage (mapping queries,
\* mapping table, typing queries, typing table, overlap queries, overlap
\* table), every table is written at most once and only after all the queries
\* of its stage, and a run that a failed query ends has written the tables of
\* the earlier stages and no other.
C9_StageOrder ==
    /\ \A i, j \in DOMAIN mn_events :
         i < j => StageRank(mn_events[i]) <= StageRank(mn_events[j])
    /\ \A w \in {"w_map", "w_type", "w_ovl"} : Count(w) <= 1
    /\ Written("map") <=> Occurs("w_map")
    /\ Written("typing") <=> Occurs("w_type")
    /\ Written("overlap") <=> Occurs("w_ovl")
    /\ Occurs("w_map") => Count("q_map") = Len(mn_metaphors)
    /\ (Occurs("q_type") \/ Occurs("w_type")) => Occurs("w_map")
    /\ Occurs("w_type") => Len(mn_typing_rows) = Len(mn_unique_frames)
    /\ (Occurs("q_ovl") \/ Occurs("w_ovl")) => Occurs("w_type")
    /\ Occurs("w_ovl") =>
         /\ LastEvent = "w_ovl"
         /\ mn_pc = "done"
         /\ Count("q_ovl") = 2 * Len(mn_overlap_rows)
    /\ mn_error = "QueryError" =>
         /\ mn_pc = "crashed"
         /\ mn_events # <<>>
         /\ LastEvent \in {"q_map", "q_type", "q_ovl"}
         /\ Written("map") <=> LastEvent \in {"q_type", "q_ovl"}
         /\ Written("typing") <=> LastEvent = "q_ovl"
         /\ ~Written("overlap")

\* a query of the overlap stage failed after both earlier tables were written
C9_Witness ==
    /\ mn_error = "QueryError"
    /\ LastEvent = "q_ovl"
    /\ Written("map")
    /\ Written("typing")
    /\ ~Written("overlap")
    /\ Len(mn_overlap_rows) = 1
====
